---- MODULE Spec2Model ----
(***************************************************************************)
(* Reconciler of knative.dev/net-gateway-api: the create-or-update of      *)
(* HTTPRoute and ReferenceGrant (reconcileHTTPRoute, reconcileTLS) and the *)
(* listener merge on the shared Gateway (reconcileGatewayListeners,        *)
(* clearGatewayListeners).                                                 *)
(*                                                                         *)
(* Each function reads one object through its lister and writes that same  *)
(* object through the client; no function reads or writes the object of    *)
(* another. A run of Spec is therefore about one object, named by          *)
(* `target`, and the calls of every ingress on it, one call at a time.     *)
(* SpecRace splits the two Gateway calls at their Update, so that the      *)
(* calls of different ingresses interleave; SpecClear runs                 *)
(* clearGatewayListeners on arbitrary listener sequences.                  *)
(***************************************************************************)
EXTENDS Integers, Sequences, FiniteSets, TLC

VARIABLES
    target,                \* the object the run is about
    gateway,               \* the Gateway as the API server holds it
    gatewayLister,         \* the informer cache's copy of it (may be stale)
    httpRoute,             \* the HTTPRoute as the API server holds it
    httprouteLister,       \* the informer cache's copy of it
    referenceGrant,        \* the ReferenceGrant as the API server holds it
    referenceGrantLister,  \* the informer cache's copy of it
    pc,                    \* SpecRace, per ingress: "idle", or "update" between read and Update
    work,                  \* SpecRace, per ingress: the locals of the call in progress
    last,                  \* the most recently returned call: what it read, issued and returned
    lastWrite              \* the most recent write the API server accepted: whose, and for what

vars == <<target, gateway, gatewayLister, httpRoute, httprouteLister,
          referenceGrant, referenceGrantLister, pc, work, last, lastWrite>>

gatewayVars == <<gateway, gatewayLister>>
routeVars == <<httpRoute, httprouteLister>>
grantVars == <<referenceGrant, referenceGrantLister>>
raceVars == <<pc, work>>

----------------------------------------------------------------------------
(* Bounds of the model *)

\* listeners of other owners that the Gateway may carry
MaxForeign == 1
\* the Gateway starts with 0..MaxInitial listeners
MaxInitial == 2
\* an IngressTLS block lists 0..MaxHosts hosts
MaxHosts == 2
\* a write is issued only while the object's resourceVersion is below MaxVersion
MaxVersion == 2
\* SpecClear: the Gateway starts with 0..MaxClearLen listeners
MaxClearLen == 4
\* keys per header map of a rule
MaxHeaders == 2

----------------------------------------------------------------------------
(* Go values *)

\* A Go slice or map that JSON omits when empty: nil and empty are told apart
\* in memory and are the same on the wire. A map is its set of <<key, value>>.
NilSlice == [nil |-> TRUE, items |-> <<>>]
EmptySlice == [nil |-> FALSE, items |-> <<>>]
MakeSlice(items) == [nil |-> FALSE, items |-> items]
NilMap == [nil |-> TRUE, kv |-> {}]
MakeMap(kv) == [nil |-> FALSE, kv |-> kv]

\* what a slice and a map read as after a round trip through the API server
StoredSlice(s) == IF s.items = <<>> THEN NilSlice ELSE MakeSlice(s.items)

\* what a map reads as after a round trip through the API server
StoredMap(m) == IF m.kv = {} THEN NilMap ELSE MakeMap(m.kv)

\* reflect.DeepEqual on maps: a nil map and an empty one differ
StrictMapEqual(a, b) == a = b

\* equality.Semantic.DeepEqual on maps: same keys and values, nil equal to empty
SemanticMapEqual(a, b) == a.kv = b.kv

\* kmap.Union(a, b): a new map, b's values winning
MapUnion(a, b) ==
    MakeMap({p \in a.kv : \A q \in b.kv : q[1] # p[1]} \cup b.kv)

\* kmap.Filter(in, filter): a new map without the keys filter holds of
MapFilter(in, key) == MakeMap({p \in in.kv : p[1] # key})

SeqsUpTo(S, n) == UNION {[1..k -> S] : k \in 0..n}

----------------------------------------------------------------------------
(* Ingresses and configuration *)

listenerPrefix == "kni-"
redirectHTTPRoutePostfix == "-redirect"
LastAppliedConfigAnnotation == "kubectl.kubernetes.io/last-applied-configuration"
VisibilityLabelKey == "networking.knative.dev/visibility"

UIDs == {"u1", "u2"}

Hostnames == {"a.example.com", "b.example.com"}

\* netv1alpha1.IngressTLS
TLSBlock(hosts) ==
    [hosts |-> hosts, secretName |-> "tls-secret", secretNamespace |-> "default"]

\* a block lists each of its hosts once
TLSBlocks ==
    {TLSBlock(hs) : hs \in {s \in SeqsUpTo(Hostnames, MaxHosts) :
                                \A j, k \in DOMAIN s : s[j] = s[k] => j = k}}

\* netv1alpha1.Ingress: the fields the reconciler reads. All ingresses live in
\* one namespace.
Ingress(uid) ==
    [uid |-> uid, name |-> "ing-" \o uid, namespace |-> "default",
     labels |-> NilMap, annotations |-> NilMap,
     httpOption |-> "Enabled", tls |-> <<>>]

\* the shapes an ingress takes from one reconcile to the next: with or without
\* labels and annotations of its own, and either serving HTTP without TLS or
\* redirecting HTTP to the HTTPS of its TLS block
IngressVariants(uid) ==
    {[Ingress(uid) EXCEPT !.labels = meta[1], !.annotations = meta[2],
                          !.httpOption = secure[1], !.tls = secure[2]] :
        meta \in {<<NilMap, NilMap>>,
                  <<MakeMap({<<"app", "x">>}),
                    MakeMap({<<LastAppliedConfigAnnotation, "{}">>, <<"note", "n">>})>>},
        secure \in {<<"Enabled", <<>> >>,
                    <<"Redirected", <<TLSBlock(<<"a.example.com">>)>> >>}}

\* netv1alpha1.IngressRule
IngressRule(visibility) ==
    [hosts |-> <<"a.example.com", "svc.example.com">>, visibility |-> visibility,
     paths |-> <<[path |-> "", headers |-> NilMap, appendHeaders |-> NilMap,
                  splits |-> <<[serviceName |-> "svc1", servicePort |-> 80,
                                percent |-> 100, appendHeaders |-> NilMap]>>]>>]

Visibilities == {"ExternalIP", "ClusterLocal"}

IngressRules == {IngressRule(v) : v \in Visibilities}

\* config.FromContext(ctx).Gateway.Gateways: per visibility the Gateway and the
\* name of its HTTP listener
GatewayConfig(visibility) ==
    [namespace |-> "istio-system",
     name |-> IF visibility = "ExternalIP" THEN "knative-gateway"
              ELSE "knative-local-gateway",
     httpListenerName |-> "http"]

----------------------------------------------------------------------------
(* resources.MakeHTTPRoute, resources.MakeRedirectHTTPRoute *)

\* every enumeration of a finite set: the orders in which Go may range over a map
Enumerations(S) ==
    {o \in [1..Cardinality(S) -> S] : \A x \in S : \E k \in DOMAIN o : o[k] = x}

\* header names and their place in Go's string order
HeaderNames == <<"x-a", "x-b", "x-c">>
HeaderRank(name) == CHOOSE k \in DOMAIN HeaderNames : HeaderNames[k] = name

\* HTTPHeaderList.Less, HTTPHeaderMatchList.Less: h[i].Name > h[j].Name
HeaderLess(a, b) == HeaderRank(a.name) > HeaderRank(b.name)

\* the list as the range over the map left it
Unsorted(list) == list

\* sort.Sort: a permutation of the list in which no element is Less than one before it
SortHeaders(list) ==
    LET perms == Enumerations(DOMAIN list)
        sorted(p) == \A i, j \in DOMAIN p : i < j => ~HeaderLess(list[p[j]], list[p[i]])
        p == CHOOSE q \in perms : sorted(q)
    IN [k \in DOMAIN list |-> list[p[k]]]

\* for k, v := range m { headers = append(headers, ...) } in the order `order`
HeadersInOrder(order) == [k \in DOMAIN order |-> [name |-> order[k][1], value |-> order[k][2]]]

\* the orders in which one build ranges over the maps of a rule: per path, the
\* path's AppendHeaders, its Headers, and each split's AppendHeaders
RangeOrders(rule) ==
    {it \in [DOMAIN rule.paths ->
                [append : UNION {Enumerations(rule.paths[i].appendHeaders.kv) :
                                    i \in DOMAIN rule.paths},
                 headers : UNION {Enumerations(rule.paths[i].headers.kv) :
                                    i \in DOMAIN rule.paths},
                 splits : UNION {[DOMAIN rule.paths[i].splits ->
                                    UNION {Enumerations(rule.paths[i].splits[j].appendHeaders.kv) :
                                              j \in DOMAIN rule.paths[i].splits}] :
                                    i \in DOMAIN rule.paths}]] :
        \A i \in DOMAIN rule.paths :
            /\ it[i].append \in Enumerations(rule.paths[i].appendHeaders.kv)
            /\ it[i].headers \in Enumerations(rule.paths[i].headers.kv)
            /\ DOMAIN it[i].splits = DOMAIN rule.paths[i].splits
            /\ \A j \in DOMAIN rule.paths[i].splits :
                  it[i].splits[j] \in Enumerations(rule.paths[i].splits[j].appendHeaders.kv)}

matchesFromRulePath(path, order) ==
    <<[path |-> [type |-> "PathPrefix",
                 value |-> IF path.path # "" THEN path.path ELSE "/"],
       headers |-> MakeSlice([k \in DOMAIN order |->
                      [type |-> "Exact", name |-> SortHeaders(HeadersInOrder(order))[k].name,
                       value |-> SortHeaders(HeadersInOrder(order))[k].value]])]>>

makeHTTPRouteRule(rule, it) ==
    [i \in DOMAIN rule.paths |->
        LET path == rule.paths[i] IN
        [backendRefs |->
            MakeSlice([j \in DOMAIN path.splits |->
                [group |-> "", kind |-> "Service", port |-> path.splits[j].servicePort,
                 name |-> path.splits[j].serviceName, weight |-> path.splits[j].percent,
                 filters |-> <<[type |-> "RequestHeaderModifier",
                                set |-> MakeSlice(SortHeaders(HeadersInOrder(it[i].splits[j])))]>>]]),
         filters |-> IF path.appendHeaders.nil THEN NilSlice
                     ELSE MakeSlice(<<[type |-> "RequestHeaderModifier",
                             set |-> MakeSlice(SortHeaders(HeadersInOrder(it[i].append)))]>>),
         matches |-> matchesFromRulePath(path, it[i].headers)]]

makeRedirectHTTPRouteRule(rule, it) ==
    [i \in DOMAIN rule.paths |->
        [backendRefs |-> NilSlice,
         filters |-> MakeSlice(<<[type |-> "RequestRedirect", scheme |-> "https", port |-> 443,
                        statusCode |-> 301]>>),
         matches |-> matchesFromRulePath(rule.paths[i], it[i].headers)]]

makeHTTPRouteSpec(rule, gatewayRef, it) ==
    [hostnames |-> rule.hosts, rules |-> makeHTTPRouteRule(rule, it),
     parentRefs |-> <<gatewayRef>>]

makeRedirectHTTPRouteSpec(rule, gatewayRef, it) ==
    [hostnames |-> rule.hosts, rules |-> makeRedirectHTTPRouteRule(rule, it),
     parentRefs |-> <<gatewayRef>>]

\* resources.LongestHost: the longest of the rule's hosts (the first such)
LongestHost(hosts) ==
    hosts[CHOOSE k \in DOMAIN hosts :
            /\ \A j \in DOMAIN hosts : Len(hosts[j]) <= Len(hosts[k])
            /\ \A j \in DOMAIN hosts : Len(hosts[j]) = Len(hosts[k]) => k <= j]

VisibilityLabel(rule) == IF rule.visibility = "ClusterLocal" THEN "cluster-local" ELSE ""

\* an object as the client builds it: no resourceVersion, no UID yet
NewObject(name, ing, labels, annotations, spec) ==
    [exists |-> TRUE, name |-> name, namespace |-> ing.namespace, rv |-> 0, uid |-> "",
     owner |-> ing.uid, labels |-> labels, annotations |-> annotations, spec |-> spec]

MakeHTTPRoute(ing, rule, gatewayRef, it) ==
    NewObject(LongestHost(rule.hosts), ing,
              MapUnion(ing.labels, MakeMap({<<VisibilityLabelKey, VisibilityLabel(rule)>>})),
              MapFilter(ing.annotations, LastAppliedConfigAnnotation),
              makeHTTPRouteSpec(rule, gatewayRef, it))

MakeRedirectHTTPRoute(ing, rule, gatewayRef, it) ==
    NewObject(LongestHost(rule.hosts) \o redirectHTTPRoutePostfix, ing,
              MapUnion(ing.labels, MakeMap({<<VisibilityLabelKey, VisibilityLabel(rule)>>})),
              MapFilter(ing.annotations, LastAppliedConfigAnnotation),
              makeRedirectHTTPRouteSpec(rule, gatewayRef, it))

\* resources.MakeReferenceGrant: a deterministic name, derived from the secret
\* and the Gateway's namespace; in the secret's namespace; controlled by the
\* ingress; it lets Gateways of the external Gateway's namespace refer to the secret
MakeReferenceGrant(ing, tls, externalGw) ==
    NewObject(tls.secretName \o "-" \o externalGw.namespace,
              [ing EXCEPT !.namespace = tls.secretNamespace],
              NilMap, NilMap,
              [from |-> <<[group |-> "gateway.networking.k8s.io", kind |-> "Gateway",
                           namespace |-> externalGw.namespace]>>,
               to |-> <<[group |-> "", kind |-> "Secret", name |-> tls.secretName]>>])

----------------------------------------------------------------------------
(* The API server and the informer caches *)

\* no object of that name
NoObject ==
    [exists |-> FALSE, name |-> "", namespace |-> "", rv |-> 0, uid |-> "", owner |-> "",
     labels |-> NilMap, annotations |-> NilMap, spec |-> <<>>]

StoredFilter(f) == IF "set" \in DOMAIN f THEN [f EXCEPT !.set = StoredSlice(f.set)] ELSE f

StoredFilters(sl) ==
    StoredSlice([nil |-> sl.nil, items |-> [k \in DOMAIN sl.items |-> StoredFilter(sl.items[k])]])

StoredBackendRefs(sl) ==
    StoredSlice([nil |-> sl.nil,
                 items |-> [k \in DOMAIN sl.items |->
                              [sl.items[k] EXCEPT !.filters =
                                  [j \in DOMAIN sl.items[k].filters |->
                                      StoredFilter(sl.items[k].filters[j])]]]])

\* what a spec reads as after a round trip through the API server: its empty
\* slices come back nil (HTTPRouteSpec; a ReferenceGrantSpec has none)
StoredSpec(spec) ==
    IF "rules" \notin DOMAIN spec THEN spec
    ELSE [spec EXCEPT !.rules =
            [i \in DOMAIN spec.rules |->
                [backendRefs |-> StoredBackendRefs(spec.rules[i].backendRefs),
                 filters |-> StoredFilters(spec.rules[i].filters),
                 matches |-> [m \in DOMAIN spec.rules[i].matches |->
                                [spec.rules[i].matches[m] EXCEPT
                                    !.headers = StoredSlice(spec.rules[i].matches[m].headers)]]]]]

\* equality.Semantic.DeepEqual on specs: deep equality with nil slices equal to empty ones
SemanticSpecEqual(a, b) == StoredSpec(a) = StoredSpec(b)

\* the object the server holds after it accepted `body`
StoredObject(body, rv, uid) ==
    [body EXCEPT !.rv = rv, !.uid = uid, !.labels = StoredMap(body.labels),
                 !.annotations = StoredMap(body.annotations), !.spec = StoredSpec(body.spec)]

ServerUID == "srv-1"

\* Create: refused on a fault and when an object of that name exists
CreateAccepted(store, body, fault) == ~fault /\ ~store.exists
AfterCreate(body) == StoredObject(body, 1, ServerUID)

\* Update: refused on a fault, when the object is gone, and when the body
\* carries a resourceVersion other than the stored one
UpdateAccepted(store, body, fault) ==
    /\ ~fault
    /\ store.exists
    /\ (body.rv = 0 \/ body.rv = store.rv)
AfterUpdate(store, body) == StoredObject(body, store.rv + 1, store.uid)

\* one call on the client: its verb, the body sent, whether the server accepted it
Call(verb, body, ok) == [verb |-> verb, body |-> body, ok |-> ok]

\* what a converge leaves: what the lister returned, the calls it made on the
\* client, the store afterwards, the error and object returned, the events recorded
Outcome(found, read, calls, store, err, events, result) ==
    [found |-> found, read |-> read, calls |-> calls, store |-> store, err |-> err,
     events |-> events, result |-> result]

----------------------------------------------------------------------------
(* reconcileHTTPRoute *)

\* the gatewayRef of reconcileWorkloadRoute
WorkloadGatewayRef(ing, rule, gatewayConfig) ==
    [group |-> "gateway.networking.k8s.io", kind |-> "Gateway",
     namespace |-> gatewayConfig.namespace, name |-> gatewayConfig.name,
     sectionName |-> IF ing.httpOption = "Redirected" /\ rule.visibility = "ExternalIP"
                     THEN listenerPrefix \o ing.uid ELSE ""]

\* the gatewayRef of reconcileRedirectHTTPRoute
RedirectGatewayRef(gatewayConfig) ==
    [group |-> "gateway.networking.k8s.io", kind |-> "Gateway",
     namespace |-> gatewayConfig.namespace, name |-> gatewayConfig.name,
     sectionName |-> gatewayConfig.httpListenerName]

HTTPRouteDiffers(httpRouteRead, desired) ==
    \/ ~SemanticSpecEqual(httpRouteRead.spec, desired.spec)
    \/ ~SemanticMapEqual(httpRouteRead.annotations, desired.annotations)
    \/ ~SemanticMapEqual(httpRouteRead.labels, desired.labels)

\* the desired route itself sent as the Update, under the identity of the one read
HTTPRouteDesiredAsOrigin(httpRouteRead, desired) ==
    [desired EXCEPT !.rv = httpRouteRead.rv, !.uid = httpRouteRead.uid]

\* origin := httpRoute.DeepCopy(); origin.Spec, .Annotations, .Labels = desired's
HTTPRouteOrigin(httpRouteRead, desired) ==
    [httpRouteRead EXCEPT !.spec = desired.spec, !.annotations = desired.annotations,
                          !.labels = desired.labels]

\* the converge with a failed Create returned as an unwrapped, unannounced error
reconcileHTTPRouteQuietCreate(cached, store, desired, readErr, fault) ==
    IF readErr THEN Outcome(FALSE, NoObject, <<>>, store, "read", <<>>, NoObject)
    ELSE IF ~cached.exists THEN
        IF CreateAccepted(store, desired, fault)
        THEN Outcome(FALSE, NoObject, <<Call("create", desired, TRUE)>>, AfterCreate(desired),
                     "", <<"Created">>, AfterCreate(desired))
        ELSE Outcome(FALSE, NoObject, <<Call("create", desired, FALSE)>>, store,
                     "read", <<>>, NoObject)
    ELSE IF HTTPRouteDiffers(cached, desired) THEN
        LET origin == HTTPRouteOrigin(cached, desired) IN
        IF UpdateAccepted(store, origin, fault)
        THEN Outcome(TRUE, cached, <<Call("update", origin, TRUE)>>, AfterUpdate(store, origin),
                     "", <<>>, AfterUpdate(store, origin))
        ELSE Outcome(TRUE, cached, <<Call("update", origin, FALSE)>>, store,
                     "update", <<"UpdateFailed">>, NoObject)
    ELSE Outcome(TRUE, cached, <<>>, store, "", <<>>, cached)

reconcileHTTPRoute(cached, store, desired, readErr, fault) ==
    IF readErr THEN Outcome(FALSE, NoObject, <<>>, store, "read", <<>>, NoObject)
    ELSE IF ~cached.exists THEN
        IF CreateAccepted(store, desired, fault)
        THEN Outcome(FALSE, NoObject, <<Call("create", desired, TRUE)>>, AfterCreate(desired),
                     "", <<"Created">>, AfterCreate(desired))
        ELSE Outcome(FALSE, NoObject, <<Call("create", desired, FALSE)>>, store,
                     "create", <<"CreationFailed">>, NoObject)
    ELSE IF HTTPRouteDiffers(cached, desired) THEN
        LET origin == HTTPRouteOrigin(cached, desired) IN
        IF UpdateAccepted(store, origin, fault)
        THEN Outcome(TRUE, cached, <<Call("update", origin, TRUE)>>, AfterUpdate(store, origin),
                     "", <<>>, AfterUpdate(store, origin))
        ELSE Outcome(TRUE, cached, <<Call("update", origin, FALSE)>>, store,
                     "update", <<"UpdateFailed">>, NoObject)
    ELSE Outcome(TRUE, cached, <<>>, store, "", <<>>, cached)

----------------------------------------------------------------------------
(* reconcileTLS *)

\* an ownership check that takes every grant found for the ingress's own
AnyoneControls(obj, ing) == TRUE

\* metav1.IsControlledBy(rp, ing): the object's controller reference names the ingress
IsControlledBy(obj, ing) == obj.owner = ing.uid

\* the copy of the grant sent back as it was read
ReferenceGrantUnchanged(rp, desired) == rp

\* update := rp.DeepCopy(); update.Spec = desired.Spec
ReferenceGrantUpdate(rp, desired) == [rp EXCEPT !.spec = desired.spec]

\* the ownership check and the Update with the Update's error dropped
reconcileTLSOwnedDroppingError(found, cached, rp, calls, events, store, ing, desired, fault) ==
    IF ~IsControlledBy(rp, ing)
    THEN Outcome(found, cached, calls, store, "notowned", events \o <<"NotOwned">>, NoObject)
    ELSE IF ~SemanticSpecEqual(rp.spec, desired.spec) THEN
        LET update == ReferenceGrantUpdate(rp, desired)
            ok == UpdateAccepted(store, update, fault)
        IN  Outcome(found, cached, calls \o <<Call("update", update, ok)>>,
                    IF ok THEN AfterUpdate(store, update) ELSE store, "", events, rp)
    ELSE Outcome(found, cached, calls, store, "", events, rp)

\* reconcileTLS from the ownership check on; rp is the grant read or just
\* created, calls the calls made and events the events recorded so far
reconcileTLSOwned(found, cached, rp, calls, events, store, ing, desired, fault) ==
    IF ~IsControlledBy(rp, ing)
    THEN Outcome(found, cached, calls, store, "notowned", events \o <<"NotOwned">>, NoObject)
    ELSE IF ~SemanticSpecEqual(rp.spec, desired.spec) THEN
        LET update == ReferenceGrantUpdate(rp, desired) IN
        IF UpdateAccepted(store, update, fault)
        THEN Outcome(found, cached, calls \o <<Call("update", update, TRUE)>>,
                     AfterUpdate(store, update), "", events, rp)
        ELSE Outcome(found, cached, calls \o <<Call("update", update, FALSE)>>, store,
                     "update", events \o <<"UpdateFailed">>, NoObject)
    ELSE Outcome(found, cached, calls, store, "", events, rp)

\* the converge taking any failed read for not-found
reconcileTLSAnyErrorNotFound(cached, store, ing, desired, readErr, fault) ==
    IF readErr \/ ~cached.exists THEN
        IF CreateAccepted(store, desired, fault)
        THEN reconcileTLSOwned(FALSE, NoObject, AfterCreate(desired),
                               <<Call("create", desired, TRUE)>>, <<>>,
                               AfterCreate(desired), ing, desired, fault)
        ELSE Outcome(FALSE, NoObject, <<Call("create", desired, FALSE)>>, store,
                     "create", <<"CreationFailed">>, NoObject)
    ELSE reconcileTLSOwned(TRUE, cached, cached, <<>>, <<>>, store, ing, desired, fault)

reconcileTLS(cached, store, ing, desired, readErr, fault) ==
    IF readErr THEN Outcome(FALSE, NoObject, <<>>, store, "read", <<>>, NoObject)
    ELSE IF ~cached.exists THEN
        IF CreateAccepted(store, desired, fault)
        THEN reconcileTLSOwned(FALSE, NoObject, AfterCreate(desired),
                               <<Call("create", desired, TRUE)>>, <<>>,
                               AfterCreate(desired), ing, desired, fault)
        ELSE Outcome(FALSE, NoObject, <<Call("create", desired, FALSE)>>, store,
                     "create", <<"CreationFailed">>, NoObject)
    ELSE reconcileTLSOwned(TRUE, cached, cached, <<>>, <<>>, store, ing, desired, fault)

----------------------------------------------------------------------------
(* The Gateway and its listeners *)

\* The listeners a Gateway carries that no ingress of this controller owns.
ForeignListener(k) ==
    [name |-> "listener-" \o ToString(k), hostname |-> "", port |-> 80,
     protocol |-> "HTTP", secret |-> "", secretNamespace |-> "",
     routeNamespace |-> "", kinds |-> NilSlice]

NoGateway == [exists |-> FALSE, rv |-> 0, listeners |-> <<>>]

----------------------------------------------------------------------------
(* reconcileTLS: the listeners derived from one IngressTLS block *)

\* one name for the listeners of every ingress
SharedListenerName(ing) == listenerPrefix

ListenerName(ing) == listenerPrefix \o ing.uid

MakeListener(tls, ing, h) ==
    [name |-> ListenerName(ing), hostname |-> h, port |-> 443,
     protocol |-> "HTTPS", secret |-> tls.secretName,
     secretNamespace |-> tls.secretNamespace,
     routeNamespace |-> ing.namespace, kinds |-> EmptySlice]

TLSListeners(tls, ing) ==
    [k \in 1..Len(tls.hosts) |-> MakeListener(tls, ing, tls.hosts[k])]

----------------------------------------------------------------------------
(* equality.Semantic.DeepEqual on listeners: field by field, a nil slice   *)
(* and an empty one being equal.                                           *)

\* reflect.DeepEqual in its place: nil and empty slices differ
StrictListenerEqual(l, desired) == l = desired

SemanticListenerEqual(l, desired) ==
    /\ [l EXCEPT !.kinds = NilSlice] = [desired EXCEPT !.kinds = NilSlice]
    /\ l.kinds.items = desired.kinds.items

----------------------------------------------------------------------------
(* reconcileGatewayListeners: the merge *)

\* a lookup in which the first entry of a name wins
ListenerMapFirstWins(listeners) ==
    [n \in {listeners[k].name : k \in DOMAIN listeners} |->
        listeners[CHOOSE k \in DOMAIN listeners :
            /\ listeners[k].name = n
            /\ \A j \in DOMAIN listeners : listeners[j].name = n => k <= j]]

\* lmap[string(l.Name)] = l for each l in order: the last entry of a name wins
ListenerMap(listeners) ==
    [n \in {listeners[k].name : k \in DOMAIN listeners} |->
        listeners[CHOOSE k \in DOMAIN listeners :
            /\ listeners[k].name = n
            /\ \A j \in DOMAIN listeners : listeners[j].name = n => j <= k]]

MapDelete(m, key) == [n \in DOMAIN m \ {key} |-> m[n]]

\* the loop writing a differing entry to the first slot instead of slot i
RECURSIVE ScanListenersFirstSlot(_, _, _, _, _)
ScanListenersFirstSlot(gwListeners, i, lmap, update, updated) ==
    IF i > Len(gwListeners)
    THEN [lmap |-> lmap, update |-> update, updated |-> updated]
    ELSE LET l == gwListeners[i] IN
         IF l.name \notin DOMAIN lmap
         THEN ScanListenersFirstSlot(gwListeners, i + 1, lmap, update, updated)
         ELSE LET desired == lmap[l.name]
                  rest == MapDelete(lmap, l.name)
              IN IF SemanticListenerEqual(l, desired)
                 THEN ScanListenersFirstSlot(gwListeners, i + 1, rest, update, updated)
                 ELSE ScanListenersFirstSlot(gwListeners, i + 1, rest,
                                             [update EXCEPT ![1] = desired], TRUE)

\* the loop over gw.Spec.Listeners; i is the 1-based position
RECURSIVE ScanListeners(_, _, _, _, _)
ScanListeners(gwListeners, i, lmap, update, updated) ==
    IF i > Len(gwListeners)
    THEN [lmap |-> lmap, update |-> update, updated |-> updated]
    ELSE LET l == gwListeners[i] IN
         IF l.name \notin DOMAIN lmap
         THEN ScanListeners(gwListeners, i + 1, lmap, update, updated)
         ELSE LET desired == lmap[l.name]
                  rest == MapDelete(lmap, l.name)
              IN IF SemanticListenerEqual(l, desired)
                 THEN ScanListeners(gwListeners, i + 1, rest, update, updated)
                 ELSE ScanListeners(gwListeners, i + 1, rest,
                                    [update EXCEPT ![i] = desired], TRUE)

\* the orders in which Go may range over the map's keys
KeyOrders(keys) == Enumerations(keys)

\* the loop over what is left in lmap, ranged over in the order `order`
AppendRemaining(scan, order) ==
    [listeners |-> scan.update \o [k \in DOMAIN order |-> scan.lmap[order[k]]],
     updated |-> scan.updated \/ order # <<>>]

\* the scan run over the Gateway's listeners less the controller's own
\* entries that are not in the lookup
UpsertScanPruning(gwListeners, listeners) ==
    LET lmap == ListenerMap(listeners)
        kept == SelectSeq(gwListeners,
                    LAMBDA l : \/ l.name \in DOMAIN lmap
                               \/ l.name \notin {listenerPrefix \o u : u \in UIDs})
        scan == ScanListeners(kept, 1, lmap, kept, FALSE)
    IN  [scan EXCEPT !.updated = scan.updated \/ kept # gwListeners]

UpsertScan(gwListeners, listeners) ==
    ScanListeners(gwListeners, 1, ListenerMap(listeners), gwListeners, FALSE)

----------------------------------------------------------------------------
(* clearGatewayListeners: the backward swap-remove *)

ClearMatches(l, listenerName) == l.name = listenerName

\* the removal truncating without first swapping the last element in
RECURSIVE ClearScanNoSwap(_, _, _)
ClearScanNoSwap(listeners, i, listenerName) ==
    IF i < 0 THEN [listeners |-> listeners, panic |-> FALSE]
    ELSE IF i >= Len(listeners) THEN [listeners |-> listeners, panic |-> TRUE]
    ELSE IF ClearMatches(listeners[i + 1], listenerName)
         THEN ClearScanNoSwap(SubSeq(listeners, 1, Len(listeners) - 1), i - 1, listenerName)
         ELSE ClearScanNoSwap(listeners, i - 1, listenerName)

\* i is Go's 0-based index; panic records an index outside the slice
RECURSIVE ClearScan(_, _, _)
ClearScan(listeners, i, listenerName) ==
    IF i < 0 THEN [listeners |-> listeners, panic |-> FALSE]
    ELSE IF i >= Len(listeners) THEN [listeners |-> listeners, panic |-> TRUE]
    ELSE IF ClearMatches(listeners[i + 1], listenerName)
         THEN ClearScan(SubSeq([listeners EXCEPT ![i + 1] = listeners[Len(listeners)]],
                               1, Len(listeners) - 1),
                        i - 1, listenerName)
         ELSE ClearScan(listeners, i - 1, listenerName)

\* the scan starting one past the last index
ClearListenersFromLen(listeners, ing) ==
    ClearScan(listeners, Len(listeners), ListenerName(ing))

\* for i := numListeners - 1; i >= 0; i--
ClearListeners(listeners, ing) ==
    ClearScan(listeners, Len(listeners) - 1, ListenerName(ing))

----------------------------------------------------------------------------
(* The API server's side of the Gateway *)

\* What a listener reads as after a round trip through the API server: JSON
\* drops an empty "kinds", which decodes as nil.
StoredListener(l) ==
    [l EXCEPT !.kinds = IF l.kinds.items = <<>> THEN NilSlice ELSE l.kinds]

StoredListeners(ls) == [k \in DOMAIN ls |-> StoredListener(ls[k])]

\* a new object built from the fields instead of a copy: no resourceVersion
FreshObject(gw) == [gw EXCEPT !.rv = 0]

\* gw.DeepCopy(): the copy keeps the resourceVersion that was read
DeepCopyGateway(gw) == gw

\* Gateways(ns).Update(ctx, update): accepted when no fault occurs, the object
\* exists, and update carries the current resourceVersion (or none at all: an
\* unconditional update)
GatewayUpdateAccepted(gw, update, fault) ==
    /\ ~fault
    /\ gw.exists
    /\ (update.rv = 0 \/ update.rv = gw.rv)

GatewayAfterUpdate(gw, update) ==
    [exists |-> TRUE, rv |-> gw.rv + 1, listeners |-> StoredListeners(update.listeners)]

----------------------------------------------------------------------------
(* The calls and their record *)

\* no call has returned yet
NoCall ==
    [op |-> "none", uid |-> "", get |-> "none", ingTLS |-> <<>>,
     found |-> FALSE, read |-> <<>>, desired |-> <<>>,
     update |-> <<>>, issued |-> FALSE, accepted |-> FALSE, calls |-> <<>>,
     err |-> "", events |-> <<>>, result |-> <<>>]

NoWork == [op |-> "none", gw |-> NoGateway, desired |-> <<>>, update |-> NoGateway]

NoWrite == [by |-> "", op |-> "none", desired |-> <<>>]

\* SpecRace keeps no record of the returned calls
Record(call) == IF target = "race" THEN last ELSE call

\* The TLS block an ingress's reconcile passes down: any block, or, where
\* the ingresses are fixed (SpecLive), the one block of the ingress with its
\* one host.
WantedHost(uid) == IF uid = "u1" THEN "a.example.com" ELSE "b.example.com"
WantedTLS(uid) == TLSBlock(<<WantedHost(uid)>>)
TLSOf(uid) == IF target = "live" THEN {WantedTLS(uid)} ELSE TLSBlocks

\* Errors of the lister and rejections of the store other than a version
\* conflict: either may happen at any call, except under SpecLive, whose
\* store fails a write only for its resourceVersion.
ReadErrors == IF target = "live" THEN {FALSE} ELSE BOOLEAN
Faults == IF target = "live" THEN {FALSE} ELSE BOOLEAN

\* the resourceVersion up to which Updates are followed
VersionCap == IF target = "live" THEN MaxVersion + Cardinality(UIDs) ELSE MaxVersion

\* the calls of one worker per ingress run one at a time, those of SpecRace
\* and SpecLive side by side
MayStart(uid) ==
    /\ pc[uid] = "idle"
    /\ target = "gateway" => \A u \in UIDs : pc[u] = "idle"

----------------------------------------------------------------------------
(* reconcileGatewayListeners, clearGatewayListeners *)

\* a return before any Update that reports no error and records no event
ReturnNoUpdateNil(uid, op, get, gw, desired, err, events) ==
    /\ last' = Record([op |-> op, uid |-> uid, get |-> get, ingTLS |-> <<>>,
                       found |-> gw.exists, read |-> gw.listeners,
                       desired |-> desired, update |-> gw.listeners, issued |-> FALSE,
                       accepted |-> FALSE, calls |-> <<>>, err |-> "", events |-> <<>>,
                       result |-> <<>>])
    /\ UNCHANGED <<target, gatewayVars, routeVars, grantVars, raceVars, lastWrite>>

\* the call returns before any Update is issued
ReturnNoUpdate(uid, op, get, gw, desired, err, events) ==
    /\ last' = Record([op |-> op, uid |-> uid, get |-> get, ingTLS |-> <<>>,
                       found |-> gw.exists, read |-> gw.listeners,
                       desired |-> desired, update |-> gw.listeners, issued |-> FALSE,
                       accepted |-> FALSE, calls |-> <<>>, err |-> err, events |-> events,
                       result |-> <<>>])
    /\ UNCHANGED <<target, gatewayVars, routeVars, grantVars, raceVars, lastWrite>>

\* the call has computed `update` and is about to issue the Update
IssueUpdate(uid, op, gw, desired, listeners) ==
    /\ gateway.rv < VersionCap
    /\ pc' = [pc EXCEPT ![uid] = "update"]
    /\ work' = [work EXCEPT ![uid] =
                   [op |-> op, gw |-> gw, desired |-> desired,
                    update |-> [DeepCopyGateway(gw) EXCEPT !.listeners = listeners]]]
    /\ UNCHANGED <<target, gatewayVars, routeVars, grantVars, last, lastWrite>>

\* gatewayLister.Get up to the decision to issue an Update
ReconcileGatewayListeners(uid) ==
    /\ target \in {"gateway", "race", "live"}
    /\ MayStart(uid)
    /\ \E tls \in TLSOf(uid), readErr \in ReadErrors :
        LET ing == Ingress(uid)
            listeners == TLSListeners(tls, ing)
            gw == gatewayLister
        IN  IF readErr
            THEN ReturnNoUpdate(uid, "upsert", "error", NoGateway, listeners, "read", <<>>)
            ELSE IF ~gw.exists
            THEN ReturnNoUpdate(uid, "upsert", "notfound", NoGateway, listeners,
                                "missing", <<"GatewayMissing">>)
            ELSE LET scan == UpsertScan(gw.listeners, listeners) IN
                 \E order \in KeyOrders(DOMAIN scan.lmap) :
                    LET m == AppendRemaining(scan, order) IN
                    IF m.updated
                    THEN IssueUpdate(uid, "upsert", gw, listeners, m.listeners)
                    ELSE ReturnNoUpdate(uid, "upsert", "found", gw, listeners, "", <<>>)

ClearGatewayListeners(uid) ==
    /\ target \in {"gateway", "race", "clear"}
    /\ MayStart(uid)
    /\ \E readErr \in BOOLEAN :
        LET ing == Ingress(uid)
            gw == gatewayLister
        IN  IF readErr
            THEN ReturnNoUpdate(uid, "clear", "error", NoGateway, <<>>, "read", <<>>)
            ELSE IF ~gw.exists
            THEN ReturnNoUpdate(uid, "clear", "notfound", NoGateway, <<>>, "", <<>>)
            ELSE LET c == ClearListeners(gw.listeners, ing) IN
                 IF c.panic
                 THEN ReturnNoUpdate(uid, "clear", "found", gw, <<>>, "panic", <<>>)
                 ELSE IF Len(c.listeners) # Len(gw.listeners)
                 THEN IssueUpdate(uid, "clear", gw, <<>>, c.listeners)
                 ELSE ReturnNoUpdate(uid, "clear", "found", gw, <<>>, "", <<>>)

\* the Update call sent a second time, unchanged, when the first is rejected
UpdateGatewayTwice(uid) ==
    /\ pc[uid] = "update"
    /\ \E fault \in BOOLEAN, again \in BOOLEAN :
        LET w == work[uid]
            first == GatewayUpdateAccepted(gateway, w.update, fault)
            second == ~first /\ GatewayUpdateAccepted(gateway, w.update, again)
            ok == first \/ second
            after == GatewayAfterUpdate(gateway, w.update)
        IN  /\ gateway' = IF ok THEN after ELSE gateway
            /\ lastWrite' = IF ok
                            THEN [by |-> uid, op |-> w.op, desired |-> w.desired]
                            ELSE lastWrite
            /\ last' = Record([op |-> w.op, uid |-> uid, get |-> "found",
                               ingTLS |-> <<>>, found |-> TRUE,
                               read |-> w.gw.listeners, desired |-> w.desired,
                               update |-> w.update.listeners, issued |-> TRUE,
                               accepted |-> ok,
                               calls |-> IF first
                                         THEN <<Call("update", w.update, TRUE)>>
                                         ELSE <<Call("update", w.update, FALSE),
                                                Call("update", w.update, second)>>,
                               err |-> IF ok THEN "" ELSE "update",
                               events |-> IF ok THEN <<>> ELSE <<"GatewayUpdateFailed">>,
                               result |-> <<>>])
    /\ pc' = [pc EXCEPT ![uid] = "idle"]
    /\ work' = [work EXCEPT ![uid] = NoWork]
    /\ UNCHANGED <<target, gatewayLister, routeVars, grantVars>>

\* the Update call of either operation, and what follows it
UpdateGateway(uid) ==
    /\ pc[uid] = "update"
    /\ \E fault \in Faults :
        LET w == work[uid]
            ok == GatewayUpdateAccepted(gateway, w.update, fault)
            after == GatewayAfterUpdate(gateway, w.update)
        IN  /\ gateway' = IF ok THEN after ELSE gateway
            /\ lastWrite' = IF ok
                            THEN [by |-> uid, op |-> w.op, desired |-> w.desired]
                            ELSE lastWrite
            /\ last' = Record([op |-> w.op, uid |-> uid, get |-> "found",
                               ingTLS |-> <<>>, found |-> TRUE,
                               read |-> w.gw.listeners, desired |-> w.desired,
                               update |-> w.update.listeners, issued |-> TRUE,
                               accepted |-> ok,
                               calls |-> <<Call("update", w.update, ok)>>,
                               err |-> IF ok THEN "" ELSE "update",
                               events |-> IF ok THEN <<>> ELSE <<"GatewayUpdateFailed">>,
                               result |-> <<>>])
    /\ pc' = [pc EXCEPT ![uid] = "idle"]
    /\ work' = [work EXCEPT ![uid] = NoWork]
    /\ UNCHANGED <<target, gatewayLister, routeVars, grantVars>>

\* the informer delivers the Gateway's current state to the cache
GatewayInformerSync ==
    /\ gatewayLister # gateway
    /\ gatewayLister' = gateway
    /\ UNCHANGED <<target, gateway, routeVars, grantVars, raceVars, last, lastWrite>>

----------------------------------------------------------------------------
(* reconcileWorkloadRoute, reconcileRedirectHTTPRoute, reconcileTLS *)

\* what the lister's Get answered: an error, not-found, or the cached object
GetOutcome(readErr, cached) ==
    IF readErr THEN "error" ELSE IF cached.exists THEN "found" ELSE "notfound"

\* the record of a converge that returned
CallRecord(op, uid, get, ing, desired, out, result) ==
    [op |-> op, uid |-> uid, get |-> get, ingTLS |-> ing.tls,
     found |-> out.found, read |-> out.read, desired |-> desired,
     update |-> IF out.calls = <<>> THEN NoObject ELSE out.calls[Len(out.calls)].body,
     issued |-> out.calls # <<>>,
     accepted |-> out.calls # <<>> /\ \A k \in DOMAIN out.calls : out.calls[k].ok,
     calls |-> out.calls, err |-> out.err, events |-> out.events, result |-> result]

\* the accepted write of a converge, if it made one
WriteRecord(op, uid, desired, out) ==
    IF \E k \in DOMAIN out.calls : out.calls[k].ok
    THEN [by |-> uid, op |-> op, desired |-> desired]
    ELSE lastWrite

\* the converge of an HTTPRoute returns: the store and the record after it
ReturnHTTPRoute(op, uid, get, ing, desired, out) ==
    /\ out.calls = <<>> \/ httpRoute.rv < MaxVersion
    /\ httpRoute' = out.store
    /\ last' = CallRecord(op, uid, get, ing, desired, out, out.result)
    /\ lastWrite' = WriteRecord(op, uid, desired, out)
    /\ UNCHANGED <<target, gatewayVars, httprouteLister, grantVars, raceVars>>

ReconcileWorkloadRoute(uid) ==
    /\ target = "workload"
    /\ \E ing \in IngressVariants(uid), rule \in IngressRules,
          readErr \in BOOLEAN, fault \in BOOLEAN :
        \E it \in RangeOrders(rule) :
            LET gatewayConfig == GatewayConfig(rule.visibility)
                gatewayRef == WorkloadGatewayRef(ing, rule, gatewayConfig)
                desired == MakeHTTPRoute(ing, rule, gatewayRef, it)
            IN  ReturnHTTPRoute("workload", uid, GetOutcome(readErr, httprouteLister),
                    ing, desired,
                    reconcileHTTPRoute(httprouteLister, httpRoute, desired, readErr, fault))

\* a precondition that lets every ingress through
AnyTLS(ing) == FALSE

\* ing.Spec.TLS == nil || len(ing.Spec.TLS) == 0
NoTLS(ing) == Len(ing.tls) = 0

ReconcileRedirectHTTPRoute(uid) ==
    /\ target = "redirect"
    /\ \E ing \in IngressVariants(uid), rule \in IngressRules,
          readErr \in BOOLEAN, fault \in BOOLEAN :
        \E it \in RangeOrders(rule) :
            IF NoTLS(ing)
            THEN ReturnHTTPRoute("redirect", uid, "none", ing, NoObject,
                    Outcome(FALSE, NoObject, <<>>, httpRoute, "notls", <<>>, NoObject))
            ELSE LET gatewayConfig == GatewayConfig(rule.visibility)
                     gatewayRef == RedirectGatewayRef(gatewayConfig)
                     desired == MakeRedirectHTTPRoute(ing, rule, gatewayRef, it)
                 IN  ReturnHTTPRoute("redirect", uid,
                        GetOutcome(readErr, httprouteLister), ing, desired,
                        reconcileHTTPRoute(httprouteLister, httpRoute, desired, readErr, fault))

ReconcileTLS(uid) ==
    /\ target = "grant"
    /\ \E tls \in TLSBlocks, readErr \in BOOLEAN, fault \in BOOLEAN :
        LET ing == Ingress(uid)
            externalGw == GatewayConfig("ExternalIP")
            desired == MakeReferenceGrant(ing, tls, externalGw)
            out == reconcileTLS(referenceGrantLister, referenceGrant, ing, desired,
                                readErr, fault)
        IN  /\ out.calls = <<>> \/ referenceGrant.rv < MaxVersion
            /\ referenceGrant' = out.store
            /\ last' = CallRecord("tls", uid, GetOutcome(readErr, referenceGrantLister),
                                  ing, desired, out,
                                  IF out.err = "" THEN TLSListeners(tls, ing) ELSE <<>>)
            /\ lastWrite' = WriteRecord("tls", uid, desired, out)
    /\ UNCHANGED <<target, gatewayVars, routeVars, referenceGrantLister, raceVars>>

HTTPRouteInformerSync ==
    /\ httprouteLister # httpRoute
    /\ httprouteLister' = httpRoute
    /\ UNCHANGED <<target, gatewayVars, httpRoute, grantVars, raceVars, last, lastWrite>>

ReferenceGrantInformerSync ==
    /\ referenceGrantLister # referenceGrant
    /\ referenceGrantLister' = referenceGrant
    /\ UNCHANGED <<target, gatewayVars, routeVars, referenceGrant, raceVars, last, lastWrite>>

----------------------------------------------------------------------------
(* Initial states and specifications *)

\* The listeners a Gateway may hold when the controller starts: those of other
\* owners and those an earlier run wrote for its ingresses, as the API server
\* returns them.
InitialTLS == TLSBlock(<<"a.example.com">>)

InitialPool ==
    {ForeignListener(k) : k \in 1..MaxForeign} \cup
    {StoredListener(MakeListener(InitialTLS, Ingress(u), InitialTLS.hosts[1])) : u \in UIDs}

\* the API server admits a Gateway only with pairwise distinct listener names
DistinctNames(ls) == \A j, k \in DOMAIN ls : ls[j].name = ls[k].name => j = k

InitialGateways ==
    {NoGateway} \cup
    {[exists |-> TRUE, rv |-> 1, listeners |-> ls] :
        ls \in {s \in SeqsUpTo(InitialPool, MaxInitial) : DistinctNames(s)}}

\* a label or annotation someone else put on an object
ForeignMeta == MakeMap({<<"team", "x">>})

\* The HTTPRoute of the rule's name that the controller may find when it
\* starts: none, the one an earlier run wrote for either ingress, or that one
\* with a label added by someone else.
InitialHTTPRoutes(redirect) ==
    LET built ==
            {IF redirect
             THEN MakeRedirectHTTPRoute(Ingress(u), IngressRule(v),
                      RedirectGatewayRef(GatewayConfig(v)),
                      CHOOSE it \in RangeOrders(IngressRule(v)) : TRUE)
             ELSE MakeHTTPRoute(Ingress(u), IngressRule(v),
                      WorkloadGatewayRef(Ingress(u), IngressRule(v),
                                         GatewayConfig(v)),
                      CHOOSE it \in RangeOrders(IngressRule(v)) : TRUE) :
                u \in UIDs, v \in Visibilities}
        stored == {StoredObject(o, 1, ServerUID) : o \in built}
    IN  {NoObject} \cup stored \cup
        {[o EXCEPT !.labels = MapUnion(o.labels, ForeignMeta)] : o \in stored}

\* The ReferenceGrant of the secret's name that the controller may find when
\* it starts: none, or one controlled by either ingress or by another object,
\* with the desired spec or another one, with or without a label of its own.
InitialReferenceGrants ==
    LET built == {MakeReferenceGrant(Ingress(u), InitialTLS,
                      GatewayConfig("ExternalIP")) : u \in UIDs}
        stored == {StoredObject(o, 1, ServerUID) : o \in built}
        owned == stored \cup {[o EXCEPT !.owner = "other"] : o \in stored}
        specs == owned \cup
                 {[o EXCEPT !.spec.from = @ \o <<[group |-> "gateway.networking.k8s.io",
                                                  kind |-> "Gateway",
                                                  namespace |-> "legacy"]>>] : o \in owned}
    IN  {NoObject} \cup specs \cup {[o EXCEPT !.labels = ForeignMeta] : o \in specs}

Targets == {"gateway", "workload", "redirect", "grant"}

Init ==
    /\ target \in Targets
    /\ gateway \in (IF target = "gateway" THEN InitialGateways ELSE {NoGateway})
    /\ gatewayLister = gateway
    /\ httpRoute \in (IF target = "workload" THEN InitialHTTPRoutes(FALSE)
                      ELSE IF target = "redirect" THEN InitialHTTPRoutes(TRUE)
                      ELSE {NoObject})
    /\ httprouteLister = httpRoute
    /\ referenceGrant \in (IF target = "grant" THEN InitialReferenceGrants ELSE {NoObject})
    /\ referenceGrantLister = referenceGrant
    /\ pc = [u \in UIDs |-> "idle"]
    /\ work = [u \in UIDs |-> NoWork]
    /\ last = NoCall
    /\ lastWrite = NoWrite

Next ==
    \/ \E uid \in UIDs : ReconcileGatewayListeners(uid)
    \/ \E uid \in UIDs : ClearGatewayListeners(uid)
    \/ \E uid \in UIDs : UpdateGateway(uid)
    \/ GatewayInformerSync
    \/ \E uid \in UIDs : ReconcileWorkloadRoute(uid)
    \/ \E uid \in UIDs : ReconcileRedirectHTTPRoute(uid)
    \/ HTTPRouteInformerSync
    \/ \E uid \in UIDs : ReconcileTLS(uid)
    \/ ReferenceGrantInformerSync

Spec == Init /\ [][Next]_vars

----------------------------------------------------------------------------
(* The Gateway calls of different ingresses side by side *)

InitRace ==
    /\ target = "race"
    /\ gateway \in InitialGateways
    /\ gatewayLister = gateway
    /\ httpRoute = NoObject /\ httprouteLister = NoObject
    /\ referenceGrant = NoObject /\ referenceGrantLister = NoObject
    /\ pc = [u \in UIDs |-> "idle"]
    /\ work = [u \in UIDs |-> NoWork]
    /\ last = NoCall
    /\ lastWrite = NoWrite

NextRace ==
    \/ \E uid \in UIDs : ReconcileGatewayListeners(uid)
    \/ \E uid \in UIDs : ClearGatewayListeners(uid)
    \/ \E uid \in UIDs : UpdateGateway(uid)
    \/ GatewayInformerSync

SpecRace == InitRace /\ [][NextRace]_vars

----------------------------------------------------------------------------
(* The outer loop: every ingress of a fixed set is reconciled again and     *)
(* again against one existing Gateway, each reconcile reading the cache     *)
(* anew, and the informer keeps delivering the Gateway to the cache.        *)

InitLive ==
    /\ target = "live"
    /\ gateway \in InitialGateways \ {NoGateway}
    /\ gatewayLister \in {gateway, NoGateway}
    /\ httpRoute = NoObject /\ httprouteLister = NoObject
    /\ referenceGrant = NoObject /\ referenceGrantLister = NoObject
    /\ pc = [u \in UIDs |-> "idle"]
    /\ work = [u \in UIDs |-> NoWork]
    /\ last = NoCall
    /\ lastWrite = NoWrite

NextLive ==
    \/ \E uid \in UIDs : ReconcileGatewayListeners(uid)
    \/ \E uid \in UIDs : UpdateGateway(uid)
    \/ GatewayInformerSync

\* the work queue hands every ingress to a worker again, a started call
\* runs to its end, and the informer does not stop
FairLive ==
    /\ \A uid \in UIDs : WF_vars(ReconcileGatewayListeners(uid))
    /\ \A uid \in UIDs : WF_vars(UpdateGateway(uid))
    /\ WF_vars(GatewayInformerSync)

SpecLive == InitLive /\ [][NextLive]_vars /\ FairLive

----------------------------------------------------------------------------
(* The builders on rules with header maps: the routes of one rule are built *)
(* again and again, Go ranging over each map of the rule in some order.     *)

\* a header map of a path or a split: nil, or up to MaxHeaders names with values
HeaderMaps ==
    {NilMap} \cup
    {MakeMap({<<n, "v-" \o n>> : n \in S}) :
        S \in {T \in SUBSET {HeaderNames[k] : k \in DOMAIN HeaderNames} :
                  Cardinality(T) <= MaxHeaders}}

\* the rule with the header maps of its path and of its split set
RuleWithHeaders(visibility, headers, append, splitAppend) ==
    [IngressRule(visibility) EXCEPT
        !.paths = <<[@[1] EXCEPT !.headers = headers, !.appendHeaders = append,
                                 !.splits = <<[@[1] EXCEPT !.appendHeaders = splitAppend]>>]>>]

BuildRules ==
    {RuleWithHeaders("ExternalIP", h, a, sa) : h \in HeaderMaps, a \in HeaderMaps,
                                              sa \in HeaderMaps}

BuildUID == "u1"

\* one build of a route's spec: the rule, the orders the maps were ranged
\* over in, and the spec built
BuildRecord(redirect, rule, it, spec) ==
    [op |-> "build", redirect |-> redirect, rule |-> rule, it |-> it, spec |-> spec]

\* every reconcile of the ingress builds the routes of the same rule again
RulesToBuild == IF last.op = "build" THEN {last.rule} ELSE BuildRules

BuildHTTPRoute ==
    /\ target = "build"
    /\ \E rule \in RulesToBuild :
        \E it \in RangeOrders(rule) :
            LET ing == Ingress(BuildUID)
                gatewayRef == WorkloadGatewayRef(ing, rule, GatewayConfig(rule.visibility))
            IN  last' = BuildRecord(FALSE, rule, it,
                                    MakeHTTPRoute(ing, rule, gatewayRef, it).spec)
    /\ UNCHANGED <<target, gatewayVars, routeVars, grantVars, raceVars, lastWrite>>

BuildRedirectHTTPRoute ==
    /\ target = "build"
    /\ \E rule \in RulesToBuild :
        \E it \in RangeOrders(rule) :
            LET ing == Ingress(BuildUID)
                gatewayRef == RedirectGatewayRef(GatewayConfig(rule.visibility))
            IN  last' = BuildRecord(TRUE, rule, it,
                                    MakeRedirectHTTPRoute(ing, rule, gatewayRef, it).spec)
    /\ UNCHANGED <<target, gatewayVars, routeVars, grantVars, raceVars, lastWrite>>

InitBuild ==
    /\ target = "build"
    /\ gateway = NoGateway /\ gatewayLister = NoGateway
    /\ httpRoute = NoObject /\ httprouteLister = NoObject
    /\ referenceGrant = NoObject /\ referenceGrantLister = NoObject
    /\ pc = [u \in UIDs |-> "idle"]
    /\ work = [u \in UIDs |-> NoWork]
    /\ last = NoCall
    /\ lastWrite = NoWrite

NextBuild ==
    \/ BuildHTTPRoute
    \/ BuildRedirectHTTPRoute

SpecBuild == InitBuild /\ [][NextBuild]_vars

----------------------------------------------------------------------------
(* clearGatewayListeners on any listener sequence: the Gateway starts with  *)
(* any sequence over a pool in which the ingress's name may occur several   *)
(* times, and one ingress clears it.                                        *)

ClearUID == "u1"

ClearPool ==
    {ForeignListener(k) : k \in 1..MaxForeign} \cup
    {StoredListener(MakeListener(InitialTLS, Ingress(ClearUID), InitialTLS.hosts[1]))}

InitClear ==
    /\ target = "clear"
    /\ gateway \in {[exists |-> TRUE, rv |-> 1, listeners |-> ls] :
                       ls \in SeqsUpTo(ClearPool, MaxClearLen)}
    /\ gatewayLister = gateway
    /\ httpRoute = NoObject /\ httprouteLister = NoObject
    /\ referenceGrant = NoObject /\ referenceGrantLister = NoObject
    /\ pc = [u \in UIDs |-> "idle"]
    /\ work = [u \in UIDs |-> NoWork]
    /\ last = NoCall
    /\ lastWrite = NoWrite

NextClear ==
    \/ ClearGatewayListeners(ClearUID)
    \/ UpdateGateway(ClearUID)
    \/ GatewayInformerSync

SpecClear == InitClear /\ [][NextClear]_vars

----------------------------------------------------------------------------
(* Properties of the listener merge *)

Count(ls, e) == Cardinality({k \in DOMAIN ls : ls[k] = e})

Entries(ls) == {ls[k] : k \in DOMAIN ls}

\* every entry not named `own` occurs as often, with the same body, in both
ForeignKept(before, after, own) ==
    \A e \in Entries(before) \cup Entries(after) :
        e.name # own => Count(before, e) = Count(after, e) /\ Count(after, e) = 1

OwnName(uid) == ListenerName(Ingress(uid))

OwnedIndexes(ls, uid) == {k \in DOMAIN ls : ls[k].name = OwnName(uid)}

\* C1: whatever Upsert or Clear hands to Update for an ingress holds every
\* listener the Gateway had under another name exactly once and unchanged,
\* and so does the Gateway once the Update is accepted.
C1_ForeignEntriesKept ==
    /\ \A uid \in UIDs :
          pc[uid] = "update" =>
              ForeignKept(work[uid].gw.listeners, work[uid].update.listeners, OwnName(uid))
    /\ (last.op \in {"upsert", "clear"} /\ last.issued) =>
          ForeignKept(last.read, last.update, OwnName(last.uid))
    /\ (last.op \in {"upsert", "clear"} /\ last.accepted) =>
          ForeignKept(last.read, gateway.listeners, OwnName(last.uid))

\* a Clear was accepted that removed an entry standing before a foreign one
C1_Witness ==
    /\ last.op = "clear" /\ last.accepted
    /\ \E j, k \in DOMAIN last.read :
          /\ j < k
          /\ last.read[j].name = OwnName(last.uid)
          /\ last.read[k].name # OwnName(last.uid)
          /\ last.read[k] \in Entries(gateway.listeners)

\* C2: an Update the API server accepts from one ingress's call leaves every
\* listener named for another owner in the Gateway as it was, whatever the
\* interleaving of the calls and however stale their cached reads.
C2_NoLostUpdate ==
    [][\A uid \in UIDs :
          (pc[uid] = "update" /\ pc'[uid] = "idle" /\ gateway' # gateway) =>
              ForeignKept(gateway.listeners, gateway'.listeners, OwnName(uid))]_vars

\* an Update was accepted while the other ingress, whose listener is in the
\* Gateway, was itself between its read and its Update
C2_Witness ==
    /\ lastWrite.by \in UIDs
    /\ \E other \in UIDs \ {lastWrite.by} :
          /\ pc[other] = "update"
          /\ work[other].gw.rv < gateway.rv
          /\ OwnedIndexes(gateway.listeners, other) # {}

\* C3: an Upsert that read N listeners, none of them the ingress's, and was
\* given the M listeners derived from a TLS block, hands N+M listeners to
\* Update (and issues none only when M = 0), the first N as read.
C3_UpsertAddsEveryDerivedListener ==
    /\ \A uid \in UIDs :
          (pc[uid] = "update" /\ work[uid].op = "upsert"
             /\ OwnedIndexes(work[uid].gw.listeners, uid) = {}) =>
              /\ Len(work[uid].update.listeners) =
                    Len(work[uid].gw.listeners) + Len(work[uid].desired)
              /\ SubSeq(work[uid].update.listeners, 1, Len(work[uid].gw.listeners))
                    = work[uid].gw.listeners
    /\ (last.op = "upsert" /\ last.found /\ ~last.issued
          /\ OwnedIndexes(last.read, last.uid) = {}) => last.desired = <<>>

\* C7: an Upsert that finds a listener of the ingress's name differing from
\* the desired one hands to Update the list it read with that one slot
\* replaced: every other slot as read, and nothing appended.
C7_ReplaceInPlace ==
    \A uid \in UIDs :
        (pc[uid] = "update" /\ work[uid].op = "upsert") =>
            LET w == work[uid]
                read == w.gw.listeners
                out == w.update.listeners
                want == w.desired[Len(w.desired)]
            IN \A i \in OwnedIndexes(read, uid) :
                  ~SemanticListenerEqual(read[i], want) =>
                      /\ out[i] = want
                      /\ Len(out) = Len(read)
                      /\ \A j \in DOMAIN read : j # i => out[j] = read[j]

\* an entry behind another owner's was replaced and the Update accepted
C7_Witness ==
    /\ last.op = "upsert" /\ last.accepted
    /\ \E i \in OwnedIndexes(last.read, last.uid) :
          /\ 1 < i
          /\ last.read[i].hostname # last.update[i].hostname
          /\ gateway.listeners[i].hostname = last.update[i].hostname

\* C9: right after an accepted Upsert, an Upsert of the same listeners on the
\* Gateway as it now reads finds nothing to replace and nothing to append;
\* right after an accepted Clear, a Clear finds nothing to remove; and a call
\* that did read the Gateway as its ingress's own last accepted call of that
\* kind (with those listeners) left it issued no Update.
C9_Idempotent ==
    /\ (last.accepted /\ last.op = "upsert") =>
          LET scan == UpsertScan(gateway.listeners, last.desired)
          IN ~scan.updated /\ DOMAIN scan.lmap = {} /\ scan.update = gateway.listeners
    /\ (last.accepted /\ last.op = "clear") =>
          ClearListeners(gateway.listeners, Ingress(last.uid)).listeners = gateway.listeners
    /\ (last.op \in {"upsert", "clear"} /\ last.found /\ ~last.accepted
          /\ last.op = lastWrite.op /\ last.uid = lastWrite.by
          /\ last.desired = lastWrite.desired /\ last.read = gateway.listeners) =>
              ~last.issued /\ last.update = last.read

\* a second Upsert of the same listeners, on a Gateway with no foreign entry,
\* returned without an Update
C9_Witness ==
    /\ last.op = "upsert" /\ last.found /\ ~last.issued /\ last.err = ""
    /\ lastWrite.op = "upsert" /\ lastWrite.by = last.uid
    /\ last.desired = lastWrite.desired /\ last.desired # <<>>
    /\ last.read = gateway.listeners
    /\ \A k \in DOMAIN last.read : last.read[k].name = OwnName(last.uid)

\* C8: Clear on any listener sequence never indexes outside it; what it
\* hands to Update holds no entry of the ingress's name and is shorter by the
\* number of such entries read; it issues an Update exactly when it read at
\* least one such entry, and otherwise leaves the sequence as read.
C8_ClearRemovesAllInBounds ==
    /\ last.op = "clear" => last.err # "panic"
    /\ \A uid \in UIDs :
          (pc[uid] = "update" /\ work[uid].op = "clear") =>
              LET read == work[uid].gw.listeners
                  out == work[uid].update.listeners
              IN /\ OwnedIndexes(out, uid) = {}
                 /\ OwnedIndexes(read, uid) # {}
                 /\ Len(out) = Len(read) - Cardinality(OwnedIndexes(read, uid))
                 /\ \A e \in Entries(read) \cup Entries(out) :
                       e.name # OwnName(uid) => Count(read, e) = Count(out, e)
    /\ (last.op = "clear" /\ last.found) =>
          /\ last.issued <=> OwnedIndexes(last.read, last.uid) # {}
          /\ OwnedIndexes(last.update, last.uid) = {}
          /\ ~last.issued => last.update = last.read
          /\ last.accepted => gateway.listeners = last.update

\* a Clear was accepted that read the ingress's name in two adjacent slots,
\* the last one among them, behind a foreign entry
C8_Witness ==
    /\ last.op = "clear" /\ last.accepted
    /\ Len(last.read) >= 3
    /\ last.read[Len(last.read)].name = OwnName(last.uid)
    /\ last.read[Len(last.read) - 1].name = OwnName(last.uid)
    /\ last.read[1].name # OwnName(last.uid)
    /\ Len(gateway.listeners) = Len(last.read) - Cardinality(OwnedIndexes(last.read, last.uid))

----------------------------------------------------------------------------
(* Properties of the create-or-update of HTTPRoute and ReferenceGrant *)

RouteOps == {"workload", "redirect"}

\* the last call was the ingress's own next converge, with the same desired
\* body, after its last accepted write, and read the object as the store holds it
SecondConverge(store) ==
    /\ last.op = lastWrite.op /\ last.uid = lastWrite.by
    /\ last.desired = lastWrite.desired
    /\ last.found /\ last.read = store

\* the calls a converge with the last call's desired body makes now, its
\* cached read returning the object as the store holds it
CallsOfNextConverge ==
    IF last.op \in RouteOps
    THEN {reconcileHTTPRoute(httpRoute, httpRoute, last.desired, FALSE, fault).calls :
             fault \in BOOLEAN}
    ELSE {reconcileTLS(referenceGrant, referenceGrant, Ingress(last.uid), last.desired,
                       FALSE, fault).calls : fault \in BOOLEAN}

\* the last call's own cached read was current: it wrote, which the server
\* accepts only from the current object, or it read the object the store holds
FirstReadCurrent(store) == last.accepted \/ (last.found /\ last.read = store)

\* C4 as stated: after a converge with desired body D (here even: one that
\* returned no error), a converge with the same D reading the object as the
\* store now holds it makes no Create and no Update call, for an HTTPRoute
\* and for a ReferenceGrant alike.
C4_SecondConvergeNeverWrites ==
    (last.op \in RouteOps \cup {"tls"} /\ last.err = "") => CallsOfNextConverge = {<<>>}

\* C4, amended: after a converge with desired body D that returned no error
\* and whose own cached read was current, a converge with the same D reading
\* the object as the store now holds it makes no Create and no Update call,
\* for an HTTPRoute and for a ReferenceGrant alike; and the ingress's next
\* converge with D after its accepted write, given the stored object by the
\* cache, made none.
C4_ConvergeIdempotent ==
    /\ (last.op \in RouteOps /\ last.err = "" /\ FirstReadCurrent(httpRoute)) =>
          CallsOfNextConverge = {<<>>}
    /\ (last.op = "tls" /\ last.err = "" /\ FirstReadCurrent(referenceGrant)) =>
          CallsOfNextConverge = {<<>>}
    /\ (last.op \in RouteOps /\ SecondConverge(httpRoute)) => last.calls = <<>>
    /\ (last.op = "tls" /\ SecondConverge(referenceGrant)) => last.calls = <<>>

\* the second converge of an HTTPRoute whose desired annotations are an empty
\* map, read back from the store as nil, returned without a write
C4_Witness ==
    /\ last.op = "workload" /\ SecondConverge(httpRoute)
    /\ last.err = "" /\ last.calls = <<>>
    /\ last.desired.annotations = MakeMap({})
    /\ last.read.annotations = NilMap

\* C5: when reconcileTLS finds the grant and the ingress does not control it,
\* it returns the ownership error after a NotOwned event and makes no call on
\* the client, whether or not the grant's spec is the desired one.
C5_ForeignGrantIsLeftAlone ==
    (last.op = "tls" /\ last.found /\ last.read.owner # last.uid) =>
        /\ last.err = "notowned"
        /\ last.events = <<"NotOwned">>
        /\ last.calls = <<>>

\* a grant of another ingress, with a spec other than the desired one, was refused
C5_Witness ==
    /\ last.op = "tls" /\ last.found /\ last.err = "notowned"
    /\ last.read.owner \in UIDs \ {last.uid}
    /\ ~SemanticSpecEqual(last.read.spec, last.desired.spec)
    /\ referenceGrant = last.read

\* spec, labels or annotations of the object read differ from the desired ones
AnyOfThreeDiffers(read, desired) ==
    \/ ~SemanticSpecEqual(read.spec, desired.spec)
    \/ ~SemanticMapEqual(read.labels, desired.labels)
    \/ ~SemanticMapEqual(read.annotations, desired.annotations)

\* the object read with spec, labels and annotations replaced by the desired ones
OverlayOfThree(read, desired) ==
    [read EXCEPT !.spec = desired.spec, !.labels = desired.labels,
                 !.annotations = desired.annotations]

\* C6: a converge that found its object (for a ReferenceGrant: one the
\* ingress controls) made exactly one call, an Update, when spec, labels or
\* annotations differed from the desired ones, and no call when all three
\* were equal; the Update's body is the object read with those three replaced.
C6_UpdateIffAnyOfThreeDiffers ==
    (/\ last.op \in RouteOps \cup {"tls"}
     /\ last.found
     /\ last.op = "tls" => last.read.owner = last.uid) =>
        IF AnyOfThreeDiffers(last.read, last.desired)
        THEN /\ Len(last.calls) = 1
             /\ last.calls[1].verb = "update"
             /\ last.calls[1].body = OverlayOfThree(last.read, last.desired)
        ELSE last.calls = <<>>

\* C10: every call that returned an error recorded an event before it did
C10_EveryErrorHasAnEvent ==
    last.err # "" => last.events # <<>>

----------------------------------------------------------------------------
(* Errors of the store *)

\* some call of the last operation was rejected by the store
SomeCallFailed == \E k \in DOMAIN last.calls : ~last.calls[k].ok

\* C11: an operation whose cached read failed with an error other than
\* not-found, or one of whose Create or Update calls failed, returned an
\* error; an operation that read not-found, wrote nothing and returned no
\* error is a Clear.
C11_NoStoreErrorSwallowed ==
    /\ last.get = "error" => last.err # ""
    /\ SomeCallFailed => last.err # ""
    /\ (last.get = "notfound" /\ last.calls = <<>> /\ last.err = "") => last.op = "clear"

\* a converge whose Update the store rejected, after a read that succeeded
C11_Witness ==
    /\ last.op = "tls"
    /\ last.get = "found"
    /\ Len(last.calls) = 1
    /\ last.calls[1].verb = "update"
    /\ ~last.calls[1].ok
    /\ last.err = "update"

\* the three operations that converge one object of the store
ConvergeOps == RouteOps \cup {"tls"}

\* what a converge returns in place of its result when it fails
NoResult(op) == IF op \in RouteOps THEN NoObject ELSE <<>>

\* C12: a converge whose cached read reported not-found made exactly one
\* call, a Create whose body is the desired object as built, and no Update;
\* when the Create failed it recorded the CreationFailed event and returned
\* the creation-failure error and no object.
C12_NotFoundCreatesOnce ==
    (last.op \in ConvergeOps /\ last.get = "notfound") =>
        /\ Len(last.calls) = 1
        /\ last.calls[1].verb = "create"
        /\ last.calls[1].body = last.desired
        /\ ~last.calls[1].ok =>
            /\ last.err = "create"
            /\ last.events = <<"CreationFailed">>
            /\ last.result = NoResult(last.op)

\* a workload route whose Create the store rejected
C12_Witness ==
    /\ last.op = "workload"
    /\ last.get = "notfound"
    /\ Len(last.calls) = 1
    /\ last.calls[1].verb = "create"
    /\ ~last.calls[1].ok

\* the three stores are as they were
StoresUnchanged == UNCHANGED <<gateway, httpRoute, referenceGrant>>

\* C13: a call whose cached read failed with an error other than not-found
\* returned that error, made no Create and no Update, and left the store as
\* it was.
C13_ReadErrorReturnedUntouched ==
    [][last'.get = "error" =>
        /\ last'.err = "read"
        /\ last'.calls = <<>>
        /\ ~last'.issued
        /\ last'.result = NoResult(last'.op)
        /\ StoresUnchanged]_vars

\* an Upsert whose read of an existing Gateway failed
C13_Witness ==
    /\ last.op = "upsert"
    /\ last.get = "error"
    /\ last.err = "read"
    /\ gateway.exists

\* C14: an Upsert that found no Gateway returned the gateway-missing error,
\* recorded the GatewayMissing event and made no Create and no Update.
C14_UpsertOnMissingGateway ==
    (last.op = "upsert" /\ last.get = "notfound") =>
        /\ last.err = "missing"
        /\ last.events = <<"GatewayMissing">>
        /\ last.calls = <<>>
        /\ ~last.issued

\* an Upsert with listeners to add, for a Gateway that does not exist
C14_Witness ==
    /\ last.op = "upsert"
    /\ last.get = "notfound"
    /\ last.desired # <<>>
    /\ ~gateway.exists

----------------------------------------------------------------------------
(* Upsert removes nothing *)

\* C15: what an Upsert hands to Update is never shorter than what it read
\* and carries, at every position it read, an entry of the name read there;
\* with nothing desired it issues no Update, whatever entries of its own
\* the Gateway holds; and a step that leaves the Gateway with fewer
\* listeners is the Update of a Clear.
C15_UpsertNeverRemoves ==
    [][/\ (last'.op = "upsert" /\ last'.found) =>
            /\ Len(last'.update) >= Len(last'.read)
            /\ \A k \in DOMAIN last'.read : last'.update[k].name = last'.read[k].name
            /\ last'.desired = <<>> => ~last'.issued /\ last'.update = last'.read
       /\ Len(gateway'.listeners) < Len(gateway.listeners) =>
            last'.op = "clear" /\ last'.accepted]_vars

\* an Upsert with nothing desired on a Gateway that holds an entry of the ingress
C15_Witness ==
    /\ last.op = "upsert"
    /\ last.found
    /\ last.desired = <<>>
    /\ OwnedIndexes(last.read, last.uid) # {}
    /\ OwnedIndexes(gateway.listeners, last.uid) # {}

----------------------------------------------------------------------------
(* No retry inside a call *)

\* the calls of the last operation that carry the verb
CallsOf(verb) == {k \in DOMAIN last.calls : last.calls[k].verb = verb}

\* C16: one call of a route converge, of Upsert or of Clear made at most one
\* write; one call of the grant converge made at most one Create and at
\* most one Update; and a write the store rejected was the call's last one
\* and its error was returned.
C16_NoInternalRetry ==
    /\ last.op \in RouteOps \cup {"upsert", "clear"} => Len(last.calls) <= 1
    /\ last.op = "tls" =>
        /\ Cardinality(CallsOf("create")) <= 1
        /\ Cardinality(CallsOf("update")) <= 1
    /\ \A k \in DOMAIN last.calls :
        ~last.calls[k].ok => k = Len(last.calls) /\ last.err # ""

\* an Upsert whose one Update the store rejected
C16_Witness ==
    /\ last.op = "upsert"
    /\ last.issued
    /\ Len(last.calls) = 1
    /\ ~last.calls[1].ok
    /\ last.err = "update"

----------------------------------------------------------------------------
(* Convergence of the ingresses on one Gateway *)

\* the listener the ingress wants on the Gateway
WantedListener(uid) == MakeListener(WantedTLS(uid), Ingress(uid), WantedHost(uid))

\* the Gateway holds the ingress's listener under the ingress's name
HoldsWanted(uid) ==
    \E k \in DOMAIN gateway.listeners :
        /\ gateway.listeners[k].name = OwnName(uid)
        /\ SemanticListenerEqual(gateway.listeners[k], WantedListener(uid))

\* an Upsert of the ingress that read the Gateway as it is would issue no Update
UpsertIsNoOp(uid) ==
    LET scan == UpsertScan(gateway.listeners, <<WantedListener(uid)>>)
    IN  ~scan.updated /\ DOMAIN scan.lmap = {}

Converged ==
    /\ gateway.exists
    /\ gatewayLister = gateway
    /\ \A uid \in UIDs : pc[uid] = "idle" /\ HoldsWanted(uid) /\ UpsertIsNoOp(uid)

\* C17: with every ingress reconciled again and again, each call reading the
\* cache anew, and the cache following the store, the Gateway comes to hold,
\* and keeps, the wanted listener of every ingress under that ingress's
\* name, with the cache current and no Update issued or pending.
C17_ConvergesUnderContention == <>[]Converged

\* both ingresses' listeners are in place after an Update of one of them was
\* rejected for a resourceVersion the other's Update had made stale
C17_Witness ==
    /\ target = "live"
    /\ Converged
    /\ lastWrite.op = "upsert"
    /\ gateway.rv > 2
    /\ last.op = "upsert" /\ last.issued /\ ~last.accepted

----------------------------------------------------------------------------
(* The redirect route of an ingress without TLS *)

\* C18: a redirect converge for an ingress without a TLS block returned the
\* no-TLS error and no route, having built no desired route, read nothing
\* from the cache and made no Create and no Update; the stored route is as
\* it was.
C18_RedirectWithoutTLSFailsFast ==
    [][(last'.op = "redirect" /\ last'.ingTLS = <<>>) =>
        /\ last'.err = "notls"
        /\ last'.result = NoObject
        /\ last'.desired = NoObject
        /\ last'.get = "none"
        /\ last'.calls = <<>>
        /\ httpRoute' = httpRoute]_vars

\* the redirect of an ingress without TLS was refused while no route of the
\* name is stored, where a converge would have created one
C18_Witness ==
    /\ last.op = "redirect"
    /\ last.ingTLS = <<>>
    /\ last.err = "notls"
    /\ ~httpRoute.exists
    /\ ~httprouteLister.exists

----------------------------------------------------------------------------
(* The built spec does not depend on the order of the maps *)

\* the spec the same builder gives when the maps are ranged over in the order `it`
BuiltAgain(it) ==
    LET ing == Ingress(BuildUID)
        config == GatewayConfig(last.rule.visibility)
    IN  IF last.redirect
        THEN MakeRedirectHTTPRoute(ing, last.rule, RedirectGatewayRef(config), it).spec
        ELSE MakeHTTPRoute(ing, last.rule, WorkloadGatewayRef(ing, last.rule, config), it).spec

\* the list holds one entry per key of the map, with the map's value, and
\* the names strictly descend
OnePerKeyDescending(list, m) ==
    /\ Len(list) = Cardinality(m.kv)
    /\ \A p \in m.kv : \E k \in DOMAIN list : list[k].name = p[1] /\ list[k].value = p[2]
    /\ \A k \in 1..(Len(list) - 1) : HeaderRank(list[k].name) > HeaderRank(list[k + 1].name)

\* C19: a route spec built from a rule is the same whatever order each of the
\* rule's header maps is ranged over in, and every header list in it (the
\* match predicates of a path, the headers a path sets, the headers a split
\* sets) holds exactly one entry per key of its map, names strictly descending.
C19_BuildIsDeterministic ==
    last.op = "build" =>
        /\ \A it \in RangeOrders(last.rule) : BuiltAgain(it) = last.spec
        /\ \A i \in DOMAIN last.rule.paths :
            LET path == last.rule.paths[i]
                built == last.spec.rules[i]
            IN  /\ OnePerKeyDescending(built.matches[1].headers.items, path.headers)
                /\ ~last.redirect =>
                    /\ ~path.appendHeaders.nil =>
                        OnePerKeyDescending(built.filters.items[1].set.items,
                                            path.appendHeaders)
                    /\ \A j \in DOMAIN path.splits :
                        OnePerKeyDescending(built.backendRefs.items[j].filters[1].set.items,
                                            path.splits[j].appendHeaders)

\* a route built from a rule whose three maps hold several keys each, ranged
\* over in ascending order of the names
C19_Witness ==
    /\ last.op = "build"
    /\ ~last.redirect
    /\ \A i \in DOMAIN last.rule.paths :
        /\ Cardinality(last.rule.paths[i].headers.kv) > 1
        /\ Cardinality(last.rule.paths[i].appendHeaders.kv) > 1
        /\ Cardinality(last.rule.paths[i].splits[1].appendHeaders.kv) > 1
        /\ HeaderRank(last.it[i].headers[1][1]) < HeaderRank(last.it[i].headers[2][1])
        /\ HeaderRank(last.it[i].append[1][1]) < HeaderRank(last.it[i].append[2][1])
        /\ HeaderRank(last.it[i].splits[1][1][1]) < HeaderRank(last.it[i].splits[1][2][1])

----------------------------------------------------------------------------
(* Listener names stay distinct *)

\* the names of the desired listeners
DesiredNames(desired) == {desired[k].name : k \in DOMAIN desired}

\* the last of the desired listeners
LastDesired(desired) == desired[Len(desired)]

\* C21: the Gateway's listener names are pairwise distinct after every call;
\* what an Upsert hands to Update has pairwise distinct names, is longer than
\* what it read by at most one entry per desired name, and differs from what
\* it read only in entries equal to the last desired listener; an Upsert
\* with listeners desired issues no Update only when the Gateway it read
\* holds an entry semantically equal to the last of them.
C21_NamesStayDistinct ==
    /\ DistinctNames(gateway.listeners)
    /\ (last.op = "upsert" /\ last.found) =>
        /\ DistinctNames(last.update)
        /\ Len(last.update) <= Len(last.read) + Cardinality(DesiredNames(last.desired))
        /\ \A k \in DOMAIN last.update :
            (k > Len(last.read) \/ last.update[k] # last.read[k]) =>
                last.desired # <<>> /\ last.update[k] = LastDesired(last.desired)
        /\ (last.desired # <<>> /\ ~last.issued) =>
            \E k \in DOMAIN last.read :
                SemanticListenerEqual(last.read[k], LastDesired(last.desired))

\* an Upsert of two listeners of one name appended one entry to a Gateway
\* that held listeners of other names, and the Update was accepted
C21_Witness ==
    /\ last.op = "upsert"
    /\ last.accepted
    /\ Len(last.desired) = 2
    /\ last.read # <<>>
    /\ Len(last.update) = Len(last.read) + 1
    /\ Len(gateway.listeners) = Len(last.update)

----------------------------------------------------------------------------
(* reconcileTLS: listeners only once the ReferenceGrant is in order *)

\* the grant the last reconcileTLS went on with: the one it read, or the
\* body of its Create
GrantSeen ==
    IF last.found THEN last.read
    ELSE IF CallsOf("create") # {} THEN last.calls[1].body ELSE NoObject

\* C22: a reconcileTLS that returned listeners returned no error and had no
\* call rejected; the grant it read or created is controlled by the ingress;
\* either it sent no Update and that grant's spec equals the desired one, or
\* its Update carried the desired spec and the stored grant has it. A
\* reconcileTLS that returned an error returned no listeners.
C22_ListenersOnlyAfterGrant ==
    last.op = "tls" =>
        /\ last.err # "" => last.result = <<>>
        /\ last.result # <<>> =>
            /\ last.err = ""
            /\ ~SomeCallFailed
            /\ GrantSeen.exists
            /\ GrantSeen.owner = last.uid
            /\ referenceGrant.exists
            /\ IF CallsOf("update") = {}
               THEN SemanticSpecEqual(GrantSeen.spec, last.desired.spec)
               ELSE /\ \A k \in CallsOf("update") :
                        last.calls[k].body.spec = last.desired.spec
                    /\ SemanticSpecEqual(referenceGrant.spec, last.desired.spec)

\* listeners were returned after an Update that brought the ingress's own
\* grant to the desired spec
C22_Witness ==
    /\ last.op = "tls"
    /\ last.result # <<>>
    /\ last.found
    /\ CallsOf("update") # {}
    /\ ~SemanticSpecEqual(last.read.spec, last.desired.spec)
    /\ SemanticSpecEqual(referenceGrant.spec, last.desired.spec)

----------------------------------------------------------------------------
(* Two ingresses and one HTTPRoute name *)

\* this step is a route converge of one ingress, which found the route, right
\* after a converge of the same kind of another ingress that returned no
\* error and desired another spec
FollowsTheOther ==
    /\ last.op \in RouteOps
    /\ last.err = ""
    /\ last'.op = last.op
    /\ last'.uid # last.uid
    /\ last'.get = "found"
    /\ ~SemanticSpecEqual(last'.desired.spec, last.desired.spec)

\* the converge made one call, an Update that carries its own desired spec
\* and the owner of the stored route
UpdatesOverTheOther ==
    /\ Len(last'.calls) = 1
    /\ last'.calls[1].verb = "update"
    /\ last'.calls[1].body.spec = last'.desired.spec
    /\ last'.calls[1].body.owner = httpRoute.owner
    /\ last'.calls[1].ok =>
        /\ SemanticSpecEqual(httpRoute'.spec, last'.desired.spec)
        /\ ~SemanticSpecEqual(httpRoute'.spec, last.desired.spec)

\* a stored route keeps its owner, and after the step the converge of one
\* of the two ingresses would still find a spec other than its own
OwnerKeptNeverSettled ==
    /\ httpRoute.exists => httpRoute'.owner = httpRoute.owner
    /\ FollowsTheOther =>
        \/ ~SemanticSpecEqual(httpRoute'.spec, last'.desired.spec)
        \/ ~SemanticSpecEqual(httpRoute'.spec, last.desired.spec)

\* C23 as stated: every route converge of one ingress that follows a converge
\* of another ingress with another desired spec issues an Update with its own
\* spec; the stored route keeps its owner and the two never both find
\* their spec in place.
C23_EveryFollowingReconcileUpdates ==
    [][/\ FollowsTheOther => UpdatesOverTheOther
       /\ OwnerKeptNeverSettled]_vars

\* the cache held the stored route, and that route had the other's spec
ReadsWhatTheOtherLeft ==
    /\ httprouteLister = httpRoute
    /\ SemanticSpecEqual(httpRoute.spec, last.desired.spec)

\* C23: a route converge of one ingress that follows a converge of another
\* ingress with another desired spec, and whose cached read is the stored
\* route as the other left it, issues an Update with its own spec, which
\* once accepted replaces the other's; the stored route keeps its owner and
\* the two never both find their spec in place.
C23_FollowingReconcileOnCurrentReadUpdates ==
    [][/\ (FollowsTheOther /\ ReadsWhatTheOtherLeft) => UpdatesOverTheOther
       /\ OwnerKeptNeverSettled]_vars

\* the route one ingress created and owns holds the spec of the other, whose
\* converge followed and updated it
C23_Witness ==
    /\ last.op = "workload"
    /\ last.found
    /\ last.accepted
    /\ httpRoute.owner # last.uid
    /\ lastWrite.by = last.uid
    /\ httpRoute.rv = 2
    /\ last.read.rv = 1
    /\ last.read.uid = ServerUID
    /\ ~SemanticSpecEqual(last.read.spec, last.desired.spec)
    /\ SemanticSpecEqual(httpRoute.spec, last.desired.spec)

====
